---- MODULE Spec2Model ----
(***************************************************************************)
(* Model of one invocation of handle_all (src/src/main.rs), the handler    *)
(* that turns an inbound HTTP request into an invocation event, POSTs it   *)
(* to the backend and rebuilds an HTTP response from the backend's reply.  *)
(*                                                                         *)
(* Invocations share no state (every invocation builds its own client and  *)
(* its own locals), so the state below is the state of one invocation plus *)
(* the part of its environment it talks to: the process environment        *)
(* variable BACKEND and the network exchange with the backend.             *)
(*                                                                         *)
(* Text is a sequence of Unicode code points, bytes are numbers 0..255,    *)
(* and an Option is a sequence of length 0 (None) or 1 (Some).             *)
(***************************************************************************)
EXTENDS Integers, Sequences, FiniteSets, TLC

VARIABLES
    pc,               \* position of the invocation
    BACKEND,          \* Option: the environment variable read at line 118
    req,              \* the inbound request
    event,            \* Option: the invocation event (`body`, lines 81-112)
    posts,            \* sequence of the POSTs put on the wire
    net,              \* the exchange with the backend: idle, pending, answered, failed
    response,         \* Option: the backend's HTTP answer (status + body document)
    lambda_response,  \* Option: the parsed LambdaResponse (line 133)
    r,                \* Option: the response under construction (line 136)
    sent              \* Option: what the caller received

vars == <<pc, BACKEND, req, event, posts, net, response, lambda_response, r, sent>>

None == <<>>
Some(x) == <<x>>

\* ------------------------------------------------------------------ bounds

\* Longest reply body text explored by SpecBody.
MaxBodyLen == 4

\* ------------------------------------------------------------------ UTF-8

IsCont(b) == b >= 128 /\ b <= 191

\* String::into_bytes / str::as_bytes: the UTF-8 encoding of one code point.
Utf8Char(c) ==
    IF c < 128 THEN <<c>>
    ELSE IF c < 2048 THEN <<192 + (c \div 64), 128 + (c % 64)>>
    ELSE IF c < 65536 THEN
        <<224 + (c \div 4096), 128 + ((c \div 64) % 64), 128 + (c % 64)>>
    ELSE <<240 + (c \div 262144), 128 + ((c \div 4096) % 64),
           128 + ((c \div 64) % 64), 128 + (c % 64)>>

RECURSIVE Utf8Bytes(_)
Utf8Bytes(s) == IF s = <<>> THEN <<>> ELSE Utf8Char(Head(s)) \o Utf8Bytes(Tail(s))

\* Number of bytes of the well-formed UTF-8 sequence starting b, 0 if none does.
Utf8SeqLen(b) ==
    LET n  == Len(b)
        b0 == b[1]
    IN  IF b0 < 128 THEN 1
        ELSE IF b0 >= 194 /\ b0 <= 223
            THEN IF n >= 2 /\ IsCont(b[2]) THEN 2 ELSE 0
        ELSE IF b0 >= 224 /\ b0 <= 239
            THEN IF /\ n >= 3
                    /\ b[2] >= (IF b0 = 224 THEN 160 ELSE 128)
                    /\ b[2] <= (IF b0 = 237 THEN 159 ELSE 191)
                    /\ IsCont(b[3])
                 THEN 3 ELSE 0
        ELSE IF b0 >= 240 /\ b0 <= 244
            THEN IF /\ n >= 4
                    /\ b[2] >= (IF b0 = 240 THEN 144 ELSE 128)
                    /\ b[2] <= (IF b0 = 244 THEN 143 ELSE 191)
                    /\ IsCont(b[3])
                    /\ IsCont(b[4])
                 THEN 4 ELSE 0
        ELSE 0

Utf8CodePoint(b, k) ==
    IF k = 1 THEN b[1]
    ELSE IF k = 2 THEN (b[1] - 192) * 64 + (b[2] - 128)
    ELSE IF k = 3 THEN (b[1] - 224) * 4096 + (b[2] - 128) * 64 + (b[3] - 128)
    ELSE (b[1] - 240) * 262144 + (b[2] - 128) * 4096 + (b[3] - 128) * 64 + (b[4] - 128)

\* String::from_utf8: [ok |-> TRUE, val |-> text] or [ok |-> FALSE, val |-> <<>>].
RECURSIVE String_from_utf8(_)
String_from_utf8(b) ==
    IF b = <<>> THEN [ok |-> TRUE, val |-> <<>>]
    ELSE LET k == Utf8SeqLen(b)
         IN  IF k = 0 THEN [ok |-> FALSE, val |-> <<>>]
             ELSE LET rest == String_from_utf8(SubSeq(b, k + 1, Len(b)))
                  IN  IF rest.ok
                      THEN [ok |-> TRUE, val |-> <<Utf8CodePoint(b, k)>> \o rest.val]
                      ELSE [ok |-> FALSE, val |-> <<>>]

\* ------------------------------------------------------------------ base64

PadChar == 61

\* The STANDARD alphabet: sextet -> ASCII code.
B64Char(v) ==
    IF v < 26 THEN 65 + v
    ELSE IF v < 52 THEN 97 + (v - 26)
    ELSE IF v < 62 THEN 48 + (v - 52)
    ELSE IF v = 62 THEN 43
    ELSE 47

\* ASCII code -> sextet, -1 for a byte outside the alphabet.
B64Val(c) ==
    IF c >= 65 /\ c <= 90 THEN c - 65
    ELSE IF c >= 97 /\ c <= 122 THEN c - 71
    ELSE IF c >= 48 /\ c <= 57 THEN c + 4
    ELSE IF c = 43 THEN 62
    ELSE IF c = 47 THEN 63
    ELSE -1

\* general_purpose::STANDARD.encode
RECURSIVE Base64Encode(_)
Base64Encode(b) ==
    IF b = <<>> THEN <<>>
    ELSE IF Len(b) = 1 THEN
        <<B64Char(b[1] \div 4), B64Char((b[1] % 4) * 16), PadChar, PadChar>>
    ELSE IF Len(b) = 2 THEN
        <<B64Char(b[1] \div 4), B64Char((b[1] % 4) * 16 + (b[2] \div 16)),
          B64Char((b[2] % 16) * 4), PadChar>>
    ELSE
        <<B64Char(b[1] \div 4), B64Char((b[1] % 4) * 16 + (b[2] \div 16)),
          B64Char((b[2] % 16) * 4 + (b[3] \div 64)), B64Char(b[3] % 64)>>
        \o Base64Encode(SubSeq(b, 4, Len(b)))

Bad == [ok |-> FALSE, val |-> <<>>]

\* The last quad of the input: padding is required and canonical, and the bits
\* of the last symbol that reach no byte must be zero.
DecodeLastQuad(q) ==
    LET a == B64Val(q[1])
        b == B64Val(q[2])
        c == B64Val(q[3])
        d == B64Val(q[4])
    IN  IF a < 0 \/ b < 0 THEN Bad
        ELSE IF q[3] = PadChar /\ q[4] = PadChar THEN
            IF b % 16 = 0 THEN [ok |-> TRUE, val |-> <<a * 4 + (b \div 16)>>] ELSE Bad
        ELSE IF c < 0 THEN Bad
        ELSE IF q[4] = PadChar THEN
            IF c % 4 = 0
            THEN [ok |-> TRUE,
                  val |-> <<a * 4 + (b \div 16), (b % 16) * 16 + (c \div 4)>>]
            ELSE Bad
        ELSE IF d < 0 THEN Bad
        ELSE [ok |-> TRUE,
              val |-> <<a * 4 + (b \div 16), (b % 16) * 16 + (c \div 4), (c % 4) * 64 + d>>]

\* general_purpose::STANDARD.decode
RECURSIVE Base64Decode(_)
Base64Decode(b) ==
    IF b = <<>> THEN [ok |-> TRUE, val |-> <<>>]
    ELSE IF Len(b) < 4 THEN Bad
    ELSE IF Len(b) = 4 THEN DecodeLastQuad(b)
    ELSE LET q    == SubSeq(b, 1, 4)
             full == \A i \in 1..4 : B64Val(q[i]) >= 0
             rest == Base64Decode(SubSeq(b, 5, Len(b)))
         IN  IF full /\ rest.ok
             THEN [ok |-> TRUE, val |-> DecodeLastQuad(q).val \o rest.val]
             ELSE Bad

\* ------------------------------------------------------------------ header syntax

\* Bytes the http crate's HEADER_CHARS table accepts in a header name.
IsTokenChar(c) ==
    \/ c >= 48 /\ c <= 57
    \/ c >= 65 /\ c <= 90
    \/ c >= 97 /\ c <= 122
    \/ c \in {33, 35, 36, 37, 38, 39, 42, 43, 45, 46, 94, 95, 96, 124, 126}

LowerByte(c) == IF c >= 65 /\ c <= 90 THEN c + 32 ELSE c

\* HeaderName::try_from(&str): the name lower-cased, or an error.
HeaderName_try_from(k) ==
    LET b == Utf8Bytes(k)
    IN  IF b # <<>> /\ \A i \in 1..Len(b) : IsTokenChar(b[i])
        THEN [ok |-> TRUE, val |-> [i \in 1..Len(b) |-> LowerByte(b[i])]]
        ELSE Bad

\* str::parse::<HeaderValue>
HeaderValue_parse(v) ==
    LET b == Utf8Bytes(v)
    IN  IF \A i \in 1..Len(b) : (b[i] >= 32 /\ b[i] # 127) \/ b[i] = 9
        THEN [ok |-> TRUE, val |-> b]
        ELSE Bad

\* ------------------------------------------------------------------ inputs

\* Inbound header values (bytes): ASCII, a two-byte character, a lone 0xFF.
ReqHeaderNames == {"x-trace"}
ReqHeaderValues == {<<65>>, <<195, 169>>, <<255>>}
ReqBodies == {<<>>, <<255, 0>>}

\* body_ok = FALSE: buffering the inbound body fails (line 67).
Requests ==
    [headers : [ReqHeaderNames -> ReqHeaderValues], body : ReqBodies, body_ok : BOOLEAN]

BackendUrl == "http://backend"

\* HTTP statuses the backend answers the POST with.
BackendStatuses == {200, 500, 503}

\* Reply documents.  A key of the JSON object is absent (None) or present.
DocStatusCodes == {99, 100, 599, 600, 999, 1000, 65536}
DocHeaderNames == {<<88>>, <<120>>, <<32>>}       \* "X", "x", " "
DocHeaderValues == {<<49>>, <<50>>, <<10>>}       \* "1", "2", "\n"
DocHeaderMaps == UNION {[D -> DocHeaderValues] : D \in SUBSET DocHeaderNames}
\* "", "QQ==", "QQ=", "QR==", "e-acute"
DocBodies == {<<>>, <<81, 81, 61, 61>>, <<81, 81, 61>>, <<81, 82, 61, 61>>, <<233>>}
DocFlags == {None, Some(TRUE), Some(FALSE)}

WellFormedDocs ==
    [statusCode : {Some(s) : s \in DocStatusCodes},
     headers : {Some(h) : h \in DocHeaderMaps},
     body : {Some(b) : b \in DocBodies},
     isBase64Encoded : DocFlags]

MalformedDocs ==
    { [statusCode |-> None, headers |-> Some(<<>>), body |-> Some(<<>>),
       isBase64Encoded |-> None],
      [statusCode |-> Some(200), headers |-> None, body |-> Some(<<>>),
       isBase64Encoded |-> None],
      [statusCode |-> Some(200), headers |-> Some(<<>>), body |-> None,
       isBase64Encoded |-> Some(TRUE)] }

Docs == WellFormedDocs \cup MalformedDocs

\* What the body of the backend's answer can be: a document, or nothing
\* because the connection broke while the body was read (line 134).
Payloads == {Some(d) : d \in Docs} \cup {None}

\* ------------------------------------------------------------------ responses

INTERNAL_SERVER_ERROR == 500

\* (StatusCode, String).into_response()
ErrorResponse(msg) ==
    [kind |-> "error", status |-> INTERNAL_SERVER_ERROR, body |-> msg]

ErrorReadingHeaders == ErrorResponse("Error reading request headers.")
ErrorReadingBody == ErrorResponse("Error reading request body.")
ErrorCallingBackend == ErrorResponse("Error calling backend.")

\* ------------------------------------------------------------------ pure parts

\* CollectHeaders with the values converted lossily (from_utf8_lossy): a value
\* that is not UTF-8 becomes U+FFFD and the request goes on.
CollectHeaders_lossy(h) ==
    [ok |-> TRUE,
     val |-> [n \in DOMAIN h |-> IF String_from_utf8(h[n]).ok
                                 THEN String_from_utf8(h[n]).val ELSE <<65533>>]]

\* Lines 40-57: every header value through String::from_utf8, collected into
\* a Result: an error as soon as one value is not UTF-8.
CollectHeaders(h) ==
    IF \A n \in DOMAIN h : String_from_utf8(h[n]).ok
    THEN [ok |-> TRUE, val |-> [n \in DOMAIN h |-> String_from_utf8(h[n]).val]]
    ELSE Bad

\* Lines 81-112, the fields that depend on the request's headers and body.
BuildEventDoc(hdrs, body_bytes) ==
    [version |-> "2.0", headers |-> hdrs,
     body |-> Base64Encode(body_bytes), isBase64Encoded |-> TRUE]

\* is_server_error testing for the one status 500.
is_server_error_only_500(status) == status = 500

\* reqwest::StatusCode::is_server_error (line 125)
is_server_error(status) == status >= 500 /\ status < 600

\* serde_json::from_slice::<LambdaResponse> (lines 17-24, 133-134): statusCode,
\* headers and body are required, statusCode is a u16, isBase64Encoded is optional.
ParseLambdaResponse(doc) ==
    IF /\ doc.statusCode # None
       /\ doc.headers # None
       /\ doc.body # None
       /\ doc.statusCode[1] >= 0
       /\ doc.statusCode[1] <= 65535
    THEN [ok |-> TRUE,
          val |-> [status_code |-> doc.statusCode[1], headers |-> doc.headers[1],
                   body |-> doc.body[1], is_base64_encoded |-> doc.isBase64Encoded]]
    ELSE Bad

\* unwrap_or with the default inverted.
UnwrapOrTrue(o) == IF o = None THEN TRUE ELSE o[1]

\* Option::unwrap_or(false)
UnwrapOrFalse(o) == IF o = None THEN FALSE ELSE o[1]

\* LambdaResponse::body (lines 26-34); ok = FALSE is the unwrap's panic.
LambdaResponse_body(lr) ==
    IF UnwrapOrFalse(lr.is_base64_encoded)
    THEN Base64Decode(Utf8Bytes(lr.body))
    ELSE [ok |-> TRUE, val |-> Utf8Bytes(lr.body)]

\* http::StatusCode::from_u16, behind Response::builder().status (line 137)
StatusCode_from_u16(s) == s >= 100 /\ s < 1000

\* HeaderMap::insert: the value under a name replaces the one already there.
HeaderMap_insert(m, name, value) ==
    [n \in DOMAIN m \cup {name} |-> IF n = name THEN value ELSE m[n]]

\* Lines 140-145 on the entries in the order `order`; ok = FALSE as soon as a
\* name or a value is refused (the unwrap's panic).
RECURSIVE InsertHeaders(_, _, _)
InsertHeaders(m, h, order) ==
    IF order = <<>> THEN [ok |-> TRUE, val |-> m]
    ELSE LET k    == Head(order)
             name == HeaderName_try_from(k)
             val  == HeaderValue_parse(h[k])
         IN  IF name.ok /\ val.ok
             THEN InsertHeaders(HeaderMap_insert(m, name.val, val.val), h, Tail(order))
             ELSE Bad

\* The orders a HashMap over the keys S can be iterated in.
Orders(S) ==
    {o \in [1..Cardinality(S) -> S] : \A i, j \in 1..Cardinality(S) : o[i] = o[j] => i = j}

\* ------------------------------------------------------------------ state machine

Terminal == pc \in {"Sent", "ErrorResponseSent", "Panicked"}

Init ==
    /\ pc = "Received"
    /\ BACKEND \in {None, Some(BackendUrl)}
    /\ req \in Requests
    /\ event = None
    /\ posts = <<>>
    /\ net = "idle"
    /\ response = None
    /\ lambda_response = None
    /\ r = None
    /\ sent = None

\* Lines 37-112: headers collected, body buffered, event built.
BuildEvent ==
    /\ pc = "Received"
    /\ LET hdrs == CollectHeaders(req.headers)
       IN  IF ~hdrs.ok
           THEN /\ pc' = "ErrorResponseSent"
                /\ sent' = Some(ErrorReadingHeaders)
                /\ event' = event
           ELSE IF ~req.body_ok
           THEN /\ pc' = "ErrorResponseSent"
                /\ sent' = Some(ErrorReadingBody)
                /\ event' = event
           ELSE /\ pc' = "EventBuilt"
                /\ event' = Some(BuildEventDoc(hdrs.val, req.body))
                /\ sent' = sent
    /\ UNCHANGED <<BACKEND, req, posts, net, response, lambda_response, r>>

\* Post sending the request a second time.
Post_twice ==
    /\ pc = "EventBuilt"
    /\ BACKEND # None
    /\ pc' = "BackendCalled"
    /\ LET m == [method |-> "POST", url |-> BACKEND[1], body |-> event[1]]
       IN  posts' = posts \o <<m, m>>
    /\ net' = "pending"
    /\ UNCHANGED <<BACKEND, req, event, response, lambda_response, r, sent>>

\* Lines 115-121: the POST is put on the wire; env::var's expect panics when
\* BACKEND is not set.
Post ==
    /\ pc = "EventBuilt"
    /\ IF BACKEND = None
       THEN /\ pc' = "Panicked"
            /\ UNCHANGED <<posts, net>>
       ELSE /\ pc' = "BackendCalled"
            /\ posts' = Append(posts, [method |-> "POST", url |-> BACKEND[1],
                                       body |-> event[1]])
            /\ net' = "pending"
    /\ UNCHANGED <<BACKEND, req, event, response, lambda_response, r, sent>>

\* The backend answers the POST.
BackendAnswer ==
    /\ net = "pending"
    /\ \E s \in BackendStatuses, p \in Payloads :
           response' = Some([status |-> s, payload |-> p])
    /\ net' = "answered"
    /\ UNCHANGED <<pc, BACKEND, req, event, posts, lambda_response, r, sent>>

\* The POST fails at transport level: refused, DNS, TLS.
TransportFail ==
    /\ net = "pending"
    /\ net' = "failed"
    /\ UNCHANGED <<pc, BACKEND, req, event, posts, response, lambda_response, r, sent>>

\* ReceiveReply going back to the POST when the backend fails (a retry loop).
ReceiveReply_retry ==
    /\ pc = "BackendCalled"
    /\ net \in {"answered", "failed"}
    /\ IF net = "failed" \/ is_server_error(response[1].status)
       THEN /\ pc' = "EventBuilt"
            /\ net' = "idle"
            /\ response' = None
            /\ UNCHANGED <<lambda_response, sent>>
       ELSE /\ pc' = "Panicked"
            /\ UNCHANGED <<net, response, lambda_response, sent>>
    /\ Len(posts) < 3
    /\ UNCHANGED <<BACKEND, req, event, posts, r>>

\* Lines 122-134: the await on send() ends, then the status check, the body
\* read and the parse.
ReceiveReply ==
    /\ pc = "BackendCalled"
    /\ net \in {"answered", "failed"}
    /\ IF net = "failed"
       THEN /\ pc' = "Panicked"
            /\ UNCHANGED <<lambda_response, sent>>
       ELSE IF is_server_error(response[1].status)
       THEN /\ pc' = "ErrorResponseSent"
            /\ sent' = Some(ErrorCallingBackend)
            /\ UNCHANGED lambda_response
       ELSE IF response[1].payload = None
       THEN /\ pc' = "Panicked"
            /\ UNCHANGED <<lambda_response, sent>>
       ELSE LET parsed == ParseLambdaResponse(response[1].payload[1])
            IN  IF parsed.ok
                THEN /\ pc' = "ReplyParsed"
                     /\ lambda_response' = Some(parsed.val)
                     /\ UNCHANGED sent
                ELSE /\ pc' = "Panicked"
                     /\ UNCHANGED <<lambda_response, sent>>
    /\ UNCHANGED <<BACKEND, req, event, posts, net, response, r>>

\* Lines 136-145: status and body into the builder, then every header
\* inserted, in the HashMap's iteration order.
BuildResponse ==
    /\ pc = "ReplyParsed"
    /\ LET lr   == lambda_response[1]
           body == LambdaResponse_body(lr)
       IN  IF ~body.ok \/ ~StatusCode_from_u16(lr.status_code)
           THEN /\ pc' = "Panicked"
                /\ r' = None
           ELSE \E order \in Orders(DOMAIN lr.headers) :
                    LET hm == InsertHeaders(<<>>, lr.headers, order)
                    IN  IF hm.ok
                        THEN /\ pc' = "ResponseBuilt"
                             /\ r' = Some([kind |-> "reply", status |-> lr.status_code,
                                           headers |-> hm.val, body |-> body.val])
                        ELSE /\ pc' = "Panicked"
                             /\ r' = None
    /\ UNCHANGED <<BACKEND, req, event, posts, net, response, lambda_response, sent>>

\* Line 147: the response goes back to the harness, which writes it to the caller.
Send ==
    /\ pc = "ResponseBuilt"
    /\ pc' = "Sent"
    /\ sent' = r
    /\ UNCHANGED <<BACKEND, req, event, posts, net, response, lambda_response, r>>

HandlerNext == BuildEvent \/ Post \/ ReceiveReply \/ BuildResponse \/ Send

Next == BuildEvent \/ Post \/ BackendAnswer \/ TransportFail \/ ReceiveReply
            \/ BuildResponse \/ Send

Spec == Init /\ [][Next]_vars

\* The runtime keeps polling a task that can make progress; nothing makes the
\* backend answer.
FairSpec == Spec /\ WF_vars(HandlerNext)

\* ------------------------------------------------------------------ reply bodies

\* 'Q', 'R', '=' and e-acute: two base64 symbols, the padding, a non-ASCII character.
BodyChars == {81, 82, 61, 233}
BodyTexts == UNION {[1..n -> BodyChars] : n \in 0..MaxBodyLen}

BodyDocs ==
    [statusCode : {Some(599)},
     headers : {Some([k \in {<<88>>} |-> <<49>>])},
     body : {Some(b) : b \in BodyTexts},
     isBase64Encoded : DocFlags]

BodyRequest == [headers |-> [n \in ReqHeaderNames |-> <<65>>], body |-> <<>>, body_ok |-> TRUE]

\* The invocation right after line 134, for a reply with any of the body texts.
InitBody ==
    /\ pc = "ReplyParsed"
    /\ BACKEND = Some(BackendUrl)
    /\ req = BodyRequest
    /\ event = Some(BuildEventDoc(CollectHeaders(req.headers).val, req.body))
    /\ posts = <<[method |-> "POST", url |-> BackendUrl, body |-> event[1]]>>
    /\ net = "answered"
    /\ \E d \in BodyDocs :
           /\ response = Some([status |-> 200, payload |-> Some(d)])
           /\ lambda_response = Some(ParseLambdaResponse(d).val)
    /\ r = None
    /\ sent = None

NextBody == BuildResponse \/ Send

SpecBody == InitBody /\ [][NextBody]_vars

\* ------------------------------------------------------------------ failure kinds

InvalidHeaderEncoding == \E n \in DOMAIN req.headers : ~String_from_utf8(req.headers[n]).ok

BackendUnreachable ==
    \/ net = "failed"
    \/ /\ response # None
       /\ ~(response[1].status \in 500..599)
       /\ response[1].payload = None

BackendError == response # None /\ response[1].status \in 500..599

MalformedBackendReply ==
    /\ response # None
    /\ ~(response[1].status \in 500..599)
    /\ response[1].payload # None
    /\ LET d == response[1].payload[1]
       IN  \/ d.statusCode = None
           \/ d.headers = None
           \/ d.body = None
           \/ ~(d.statusCode[1] \in 0..65535)

\* The bytes of the texts over 'Q' and 'R' that are canonical base64.
DecodedBytes == {4, 16, 17, 20, 65, 69, 80, 81}
DecodedCandidates == UNION {[1..n -> DecodedBytes] : n \in 0..(3 * (MaxBodyLen \div 4))}

\* The text is the base64 encoding of some bytes.
IsBase64(text) == \E d \in DecodedCandidates : Base64Encode(d) = text

InvalidBodyEncoding ==
    /\ lambda_response # None
    /\ lambda_response[1].is_base64_encoded = Some(TRUE)
    /\ ~IsBase64(lambda_response[1].body)

ValidHeaderName(k) == k # <<>> /\ \A i \in 1..Len(k) : k[i] < 128 /\ IsTokenChar(k[i])
ValidHeaderValue(v) == \A i \in 1..Len(v) : (v[i] >= 32 /\ v[i] # 127) \/ v[i] = 9

InvalidResponseHeader ==
    /\ lambda_response # None
    /\ \E k \in DOMAIN lambda_response[1].headers :
           ~ValidHeaderName(k) \/ ~ValidHeaderValue(lambda_response[1].headers[k])

InvalidStatusCode ==
    /\ lambda_response # None
    /\ ~(lambda_response[1].status_code \in 100..599)

TaxonomyFailure ==
    \/ InvalidHeaderEncoding
    \/ BackendUnreachable
    \/ BackendError
    \/ MalformedBackendReply
    \/ InvalidBodyEncoding
    \/ InvalidResponseHeader
    \/ InvalidStatusCode

\* A complete 500-class response with one of the fixed messages.
IsErrorResponse(o) ==
    /\ o # None
    /\ o[1].kind = "error"
    /\ o[1].status \in 500..599
    /\ o[1].body \in {"Error reading request headers.", "Error reading request body.",
                      "Error calling backend."}

\* ------------------------------------------------------------------ claims

\* C1: when the POST fails at transport level, the request ends with a
\* 500-class response with a generic message for the caller, and the POST was
\* made once.
C1_TransportFailureAnswered ==
    (net = "failed" /\ pc # "BackendCalled") =>
        (pc = "ErrorResponseSent" /\ IsErrorResponse(sent) /\ Len(posts) = 1)

\* C2: a request in which a failure of the taxonomy occurred ends with a
\* complete 500-class response carrying a fixed message, never with no
\* response and never with a response built from the reply.
C2_EveryFailureAnswered ==
    (Terminal /\ TaxonomyFailure) => (pc = "ErrorResponseSent" /\ IsErrorResponse(sent))

\* C3: a request with a header value that is not UTF-8 is answered with the
\* fixed 500 response for unreadable headers, and no POST is ever issued for it.
C3_InvalidHeaderNeverPosted ==
    InvalidHeaderEncoding =>
        /\ posts = <<>>
        /\ net = "idle"
        /\ event = None
        /\ pc \in {"Received", "ErrorResponseSent"}
        /\ pc = "ErrorResponseSent" =>
               (sent # None /\ sent[1].kind = "error" /\ sent[1].status = 500
                /\ sent[1].body = "Error reading request headers.")

C3_Witness ==
    /\ InvalidHeaderEncoding
    /\ pc = "ErrorResponseSent"
    /\ sent = Some([kind |-> "error", status |-> 500,
                    body |-> "Error reading request headers."])

\* C4: once the handler has seen a 5xx answer of the backend, the caller has
\* the one fixed 500 response, the same for every 5xx status and every body,
\* and the backend's body was never parsed nor put into a response.
C4_ServerErrorIsGeneric ==
    (response # None /\ response[1].status \in 500..599 /\ pc # "BackendCalled") =>
        /\ pc = "ErrorResponseSent"
        /\ lambda_response = None
        /\ r = None
        /\ sent # None
        /\ sent[1].kind = "error"
        /\ sent[1].status = 500
        /\ sent[1].body = "Error calling backend."

C4_Witness ==
    /\ pc = "ErrorResponseSent"
    /\ response # None
    /\ response[1].status = 503
    /\ response[1].payload # None
    /\ response[1].payload[1].body = Some(<<81, 81, 61, 61>>)
    /\ sent = Some([kind |-> "error", status |-> 500, body |-> "Error calling backend."])

Steps == <<"Received", "EventBuilt", "BackendCalled", "ReplyParsed", "ResponseBuilt", "Sent">>

\* C6: a step of the flow is entered only from the step before it, and from
\* Sent or ErrorResponseSent nothing changes any more: no backend call, no
\* other response.  Sent carries a rebuilt reply, ErrorResponseSent an error
\* response.
C6_StepOrder ==
    /\ [][ /\ \A i \in 1..Len(Steps) :
                (pc' = Steps[i] /\ pc' # pc) => (i > 1 /\ pc = Steps[i - 1])
           /\ pc \in {"Sent", "ErrorResponseSent"} => UNCHANGED vars
         ]_vars
    /\ [](pc = "Sent" => (sent # None /\ sent[1].kind = "reply"))
    /\ [](pc = "ErrorResponseSent" => (sent # None /\ sent[1].kind = "error"))

C6_Witness ==
    /\ pc = "Sent"
    /\ Len(posts) = 1
    /\ sent = r

\* C7: a response rebuilt from a reply carries the reply's statusCode, and
\* that statusCode is in 100..599: no response with a status outside is sent.
C7_StatusRange ==
    (pc = "Sent" /\ lambda_response # None) =>
        /\ sent[1].status = lambda_response[1].status_code
        /\ lambda_response[1].status_code \in 100..599

\* C8: with isBase64Encoded true and a base64 body, the response is built and
\* its body is the bytes the reply's body encodes; with isBase64Encoded false
\* or absent its body is the reply's body as UTF-8, whatever the text.
C8_BodyDecoded ==
    (lambda_response # None /\ pc \in {"ResponseBuilt", "Sent", "Panicked"}) =>
        LET lr    == lambda_response[1]
            built == pc \in {"ResponseBuilt", "Sent"}
        IN  /\ (~InvalidStatusCode /\ ~InvalidResponseHeader /\ ~InvalidBodyEncoding) => built
            /\ built =>
                   IF lr.is_base64_encoded = Some(TRUE)
                   THEN Base64Encode(r[1].body) = lr.body
                   ELSE String_from_utf8(r[1].body) = [ok |-> TRUE, val |-> lr.body]
            /\ pc = "Sent" => sent = r

C8_Witness ==
    /\ pc = "Sent"
    /\ lambda_response[1].is_base64_encoded = Some(TRUE)
    /\ lambda_response[1].body = <<81, 82, 81, 61>>
    /\ sent[1].body = <<65, 20>>

SameNameIgnoringCase(a, b) ==
    Len(a) = Len(b) /\ \A i \in 1..Len(a) : LowerByte(a[i]) = LowerByte(b[i])

\* C9: every entry of the reply's headers is in the headers of the response
\* sent, its name compared without regard to letter case.
C9_AllHeadersPresent ==
    (pc = "Sent" /\ lambda_response # None) =>
        \A k \in DOMAIN lambda_response[1].headers :
            \E n \in DOMAIN sent[1].headers :
                /\ SameNameIgnoringCase(n, k)
                /\ sent[1].headers[n] = Utf8Bytes(lambda_response[1].headers[k])

\* C10: a request that waits for the backend's answer eventually ends.
C10_BoundedWait == (pc = "BackendCalled") ~> Terminal

====
